---- MODULE Spec2Model ----
(***************************************************************************)
(* The heuristic tabular-data normaliser of src/main.py: the cell          *)
(* normaliser (to_number_and_is_percent), the table cleaner (clean_table), *)
(* the long-form transforms (to_long_vertical, to_long_horizontal), the    *)
(* table selector (pick_first_visualizable_long) and the part of the page  *)
(* script that uses the selector's result (default_idx, df_long).          *)
(*                                                                         *)
(* A Python string is a sequence of one-character strings.  A character    *)
(* outside ASCII is written by its code point ("U+C5F0").  A float is an   *)
(* exact decimal [nan, n, e], meaning n / 10^e, or NA.                     *)
(***************************************************************************)
EXTENDS Integers, Sequences, FiniteSets, TLC

VARIABLES pc, x, num, df_raw, df_clean, df_twice, long_v, long_h,
          tables, default, default_idx, idx, df_long

vars == <<pc, x, num, df_raw, df_clean, df_twice, long_v, long_h,
          tables, default, default_idx, idx, df_long>>

\* ------------------------------------------------------------ bounds
\* Longest string given to the cell normaliser.
MaxLen == 4

\* ------------------------------------------------------------ strings
Digits == {"0", "1", "2", "3", "4", "5", "6", "7", "8", "9"}

\* str.isspace of the characters the model uses.
IsSpace(c) == c \in {" ", "\t", "\n"}

RECURSIVE LStrip(_)
LStrip(s) == IF s # <<>> /\ IsSpace(Head(s)) THEN LStrip(Tail(s)) ELSE s

RECURSIVE RStrip(_)
RStrip(s) ==
    IF s # <<>> /\ IsSpace(s[Len(s)]) THEN RStrip(SubSeq(s, 1, Len(s) - 1)) ELSE s

\* str.strip()
Strip(s) == RStrip(LStrip(s))

\* str.replace(c, ""): every occurrence of the character c removed.
RECURSIVE Remove(_, _)
Remove(s, c) ==
    IF s = <<>> THEN <<>>
    ELSE IF Head(s) = c THEN Remove(Tail(s), c)
    ELSE <<Head(s)>> \o Remove(Tail(s), c)

\* str.endswith(c) for a one-character c.
EndsWith(s, c) == s # <<>> /\ s[Len(s)] = c

\* The first position >= i of s whose character is not in class C (Len(s)+1
\* when there is none): what a greedy C* consumes from i.
RECURSIVE SkipWhile(_, _, _)
SkipWhile(s, i, C) ==
    IF i <= Len(s) /\ s[i] \in C THEN SkipWhile(s, i + 1, C) ELSE i

\* ------------------------------------------------------------ numbers
NA == [nan |-> TRUE, n |-> 0, e |-> 0]

RECURSIVE Pow10(_)
Pow10(k) == IF k = 0 THEN 1 ELSE 10 * Pow10(k - 1)

\* The decimal n / 10^e in lowest terms of e.
RECURSIVE Dec(_, _)
Dec(n, e) ==
    IF e > 0 /\ n % 10 = 0 THEN Dec(n \div 10, e - 1)
    ELSE [nan |-> FALSE, n |-> n, e |-> e]

IsNum(v) == ~v.nan

NumLess(a, b) == a.n * Pow10(b.e) < b.n * Pow10(a.e)

\* val / 100.0 and val * 100.0
Div100(v) == Dec(v.n, v.e + 2)
Mul100(v) == Dec(v.n * 100, v.e)

DigitVal(c) ==
    CASE c = "0" -> 0 [] c = "1" -> 1 [] c = "2" -> 2 [] c = "3" -> 3
      [] c = "4" -> 4 [] c = "5" -> 5 [] c = "6" -> 6 [] c = "7" -> 7
      [] c = "8" -> 8 [] c = "9" -> 9

\* The natural number a string of digits writes (0 for the empty string).
RECURSIVE DigitsVal(_)
DigitsVal(s) ==
    IF s = <<>> THEN 0
    ELSE 10 * DigitsVal(SubSeq(s, 1, Len(s) - 1)) + DigitVal(s[Len(s)])

\* float(s): surrounding whitespace is dropped; then an optional sign, digits
\* and an optional point with digits, at least one digit in all.  Anything
\* else (whitespace inside, a second point, a letter, nothing at all) raises
\* ValueError, written NA here.
float(s) ==
    LET t    == Strip(s)
        sgn  == t # <<>> /\ t[1] \in {"-", "+"}
        b    == IF sgn THEN Tail(t) ELSE t
        i    == SkipWhile(b, 1, Digits)
        pt   == i <= Len(b) /\ b[i] = "."
        j    == IF pt THEN SkipWhile(b, i + 1, Digits) ELSE i
        ip   == SubSeq(b, 1, i - 1)
        fp   == IF pt THEN SubSeq(b, i + 1, j - 1) ELSE <<>>
        mag  == DigitsVal(ip \o fp)
    IN  IF j = Len(b) + 1 /\ Len(ip) + Len(fp) >= 1
        THEN Dec(IF sgn /\ t[1] = "-" THEN -mag ELSE mag, Len(fp))
        ELSE NA

\* int(s) of is_year_like: surrounding whitespace dropped, an optional sign,
\* then digits only.  ValueError is written NA.
int(s) ==
    LET t   == Strip(s)
        sgn == t # <<>> /\ t[1] \in {"-", "+"}
        b   == IF sgn THEN Tail(t) ELSE t
    IN  IF b # <<>> /\ SkipWhile(b, 1, Digits) = Len(b) + 1
        THEN Dec(IF sgn /\ t[1] = "-" THEN -DigitsVal(b) ELSE DigitsVal(b), 0)
        ELSE NA

\* ------------------------------------------------------------ cell normaliser
\* The pattern without its tail: a sign, whitespace and digits or commas at
\* the start, anything after them.
NUM_RE_unanchored(s) ==
    LET i1 == IF s # <<>> /\ s[1] = "-" THEN 2 ELSE 1
        i2 == SkipWhile(s, i1, {" ", "\t", "\n"})
        i3 == SkipWhile(s, i2, Digits \cup {","})
    IN  i3 > i2

\* NUM_RE.match(s) for ^-?\s*[\d,]+(?:\.\d+)?\s*%?$ : every quantifier is
\* greedy and no two neighbouring classes overlap, so the match is the one
\* left-to-right scan.
NUM_RE_match(s) ==
    LET i1 == IF s # <<>> /\ s[1] = "-" THEN 2 ELSE 1
        i2 == SkipWhile(s, i1, {" ", "\t", "\n"})
        i3 == SkipWhile(s, i2, Digits \cup {","})
        fr == /\ i3 + 1 <= Len(s)
              /\ s[i3] = "."
              /\ s[i3 + 1] \in Digits
        i4 == IF fr THEN SkipWhile(s, i3 + 1, Digits) ELSE i3
        i5 == SkipWhile(s, i4, {" ", "\t", "\n"})
        i6 == IF i5 <= Len(s) /\ s[i5] = "%" THEN i5 + 1 ELSE i5
    IN  i3 > i2 /\ i6 = Len(s) + 1

\* A cell is [isna, str]: pd.isna(x) or the text of str(x).
Missing == [isna |-> TRUE, str |-> <<>>]
Text(s) == [isna |-> FALSE, str |-> s]

to_number_and_is_percent(v) ==
    IF v.isna THEN [val |-> NA, is_pct |-> FALSE]
    ELSE LET s == Strip(v.str) IN
         IF ~NUM_RE_match(s) THEN [val |-> NA, is_pct |-> FALSE]
         ELSE LET is_pct == EndsWith(s, "%")
                  val    == float(Remove(Remove(s, "%"), ","))
              IN  IF IsNum(val)
                  THEN [val |-> IF is_pct THEN Div100(val) ELSE val,
                        is_pct |-> is_pct]
                  ELSE [val |-> NA, is_pct |-> FALSE]

\* ------------------------------------------------------------ frames
\* A DataFrame is [cols, rows]: the column labels in order and the rows in
\* order, each row a sequence of cells.  pd.DataFrame(t) labels the columns
\* 0, 1, ...: the integer label i is the one-element sequence <<"int:i">>,
\* which no text is.
\*
\* An intermediate value is bound once, as the only element of a set, where
\* Python assigns it to a local:  CHOOSE r \in {F(v) : v \in {e}} : TRUE  is
\* F(e).  A sequence built by a function constructor is written out by
\* concatenating <<>> to it.
IntTok == <<"int:0", "int:1", "int:2", "int:3", "int:4", "int:5">>
IntLabel(i) == <<IntTok[i + 1]>>
IsIntLabel(c) == Len(c) = 1 /\ \E i \in 1..Len(IntTok) : c[1] = IntTok[i]
IntOf(c) == (CHOOSE i \in 1..Len(IntTok) : c[1] = IntTok[i]) - 1

DigitChar == <<"0", "1", "2", "3", "4", "5", "6", "7", "8", "9">>

\* str(i) for i >= 0
RECURSIVE IntToStr(_)
IntToStr(i) ==
    IF i < 10 THEN <<DigitChar[i + 1]>>
    ELSE IntToStr(i \div 10) \o <<DigitChar[(i % 10) + 1]>>

\* str(c) of a column label
StrOf(c) == IF IsIntLabel(c) THEN IntToStr(IntOf(c)) ELSE c

NCols(df) == Len(df.cols)
NRows(df) == Len(df.rows)

\* The positions 1..n that are in P, in order.
RECURSIVE Which(_, _)
Which(n, P) ==
    IF n = 0 THEN <<>>
    ELSE Which(n - 1, P) \o (IF n \in P THEN <<n>> ELSE <<>>)

\* The elements of s at the positions in P, in order.
Sub(s, P) ==
    CHOOSE r \in {[k \in 1..Len(ix) |-> s[ix[k]]] \o <<>> : ix \in {Which(Len(s), P)}} : TRUE

\* ------------------------------------------------------------ clean_table
\* line 49: "" if pd.isna(x) else str(x).strip(), cell by cell
applymap_strip(df) ==
    [cols |-> df.cols,
     rows |-> [i \in 1..NRows(df) |->
                 [j \in 1..NCols(df) |->
                    IF df.rows[i][j].isna THEN <<>> ELSE Strip(df.rows[i][j].str)]
                 \o <<>>] \o <<>>]

\* line 56: the label, or col_<i> for one that is blank
fix_blank_names(cols) ==
    [j \in 1..Len(cols) |->
        IF Strip(StrOf(cols[j])) # <<>> THEN cols[j]
        ELSE <<"c", "o", "l", "_">> \o IntToStr(j - 1)] \o <<>>

\* line 58: the rows that are not all ""
drop_empty_rows(rows) ==
    Sub(rows, {i \in 1..Len(rows) : \E j \in 1..Len(rows[i]) : rows[i][j] # <<>>})

\* line 52: (header_row != "").mean() >= 0.5
header_like(row) ==
    2 * Cardinality({j \in 1..Len(row) : row[j] # <<>>}) >= Len(row)

\* lines 50-58 on the frame of stripped strings
promote_and_drop(df) ==
    IF header_like(df.rows[1])
    THEN [cols |-> fix_blank_names(df.rows[1]), rows |-> drop_empty_rows(Tail(df.rows))]
    ELSE [cols |-> fix_blank_names(df.cols), rows |-> drop_empty_rows(df.rows)]

\* clean_table of a frame with at least one row (df.iloc[0] of line 51 raises
\* IndexError on a frame without rows).
clean_table(df_in) ==
    CHOOSE r \in {promote_and_drop(df) : df \in {applymap_strip(df_in)}} : TRUE

\* A frame of strings read as input again (str(x).strip() of every cell).
AsInput(df) ==
    [cols |-> df.cols,
     rows |-> [i \in 1..NRows(df) |->
                 [j \in 1..NCols(df) |-> Text(df.rows[i][j])] \o <<>>] \o <<>>]

\* pd.DataFrame(t) of an extracted grid t
DataFrame(grid) ==
    [cols |-> [j \in 1..Len(grid[1]) |-> IntLabel(j - 1)] \o <<>>, rows |-> grid]

\* ------------------------------------------------------------ to_long
\* Whether pattern p occurs in s (re.search of a literal).
Contains(s, p) ==
    \E k \in 0..(Len(s) - Len(p)) : SubSeq(s, k + 1, k + Len(p)) = p

\* line 96: (연도|년도|year|Year|시점|기간)
YearKeywords ==
    {<<"U+C5F0", "U+B3C4">>, <<"U+B144", "U+B3C4">>, <<"y", "e", "a", "r">>,
     <<"Y", "e", "a", "r">>, <<"U+C2DC", "U+C810">>, <<"U+AE30", "U+AC04">>}

name_hit(c) == \E kw \in YearKeywords : Contains(StrOf(c), kw)

\* pd.to_numeric(text, errors="coerce") of one cell
to_numeric(s) == float(s)

InRange(v, lo, hi) == IsNum(v) /\ v.n >= lo * Pow10(v.e) /\ v.n <= hi * Pow10(v.e)

\* lines 37-42
is_year_like(s) == \E v \in {int(StrOf(s))} : InRange(v, 1900, 2100)

Max(a, b) == IF a >= b THEN a ELSE b

\* lines 102-104: the values of column j, read as numbers, make it the year
\* column
year_by_values(df, j) ==
    \E ok \in {{i \in 1..NRows(df) : IsNum(to_numeric(df.rows[i][j]))}} :
       /\ Cardinality(ok) >= Max(3, NRows(df) \div 3)
       /\ 10 * Cardinality({i \in ok : InRange(to_numeric(df.rows[i][j]), 1900, 2100)})
             > 6 * Cardinality(ok)

Least(S) == CHOOSE j \in S : \A k \in S : j <= k

\* lines 94-108: the position of the year column, 0 when there is none
find_year_col(df) ==
    IF \E j \in 1..NCols(df) : name_hit(df.cols[j])
    THEN Least({j \in 1..NCols(df) : name_hit(df.cols[j])})
    ELSE IF \E j \in 1..NCols(df) : year_by_values(df, j)
    THEN Least({j \in 1..NCols(df) : year_by_values(df, j)})
    ELSE 0

\* lines 61-87, for exclude = [the label at position yj]: every other column
\* goes through to_number_and_is_percent, the excluded one through
\* pd.to_numeric; percent_cols are the positions of the columns that showed a
\* "%".
coerce_numeric_cols_with_percent_map(df, yj) ==
    [out |-> [cols |-> df.cols,
              rows |-> [i \in 1..NRows(df) |->
                          [j \in 1..NCols(df) |->
                             IF j = yj THEN to_numeric(df.rows[i][j])
                             ELSE to_number_and_is_percent(Text(df.rows[i][j])).val]
                          \o <<>>] \o <<>>],
     percent_cols |->
         {j \in 1..NCols(df) \ {yj} :
             \E i \in 1..NRows(df) :
                to_number_and_is_percent(Text(df.rows[i][j])).is_pct}]

\* max != min among the numbers of a set
Varies(S) == \E a \in S : \E b \in S : a # b

\* Order of two labels as sort_values orders them: integers by value, text by
\* code point.
Ord(c) ==
    CASE c = " " -> 32 [] c = "%" -> 37 [] c = "," -> 44 [] c = "-" -> 45
      [] c = "." -> 46 [] c \in Digits -> 48 + DigitVal(c)
      [] c = "Y" -> 89 [] c = "_" -> 95 [] c = "a" -> 97 [] c = "b" -> 98
      [] c = "c" -> 99 [] c = "e" -> 101 [] c = "l" -> 108 [] c = "m" -> 109
      [] c = "o" -> 111 [] c = "r" -> 114 [] c = "t" -> 116 [] c = "w" -> 119
      [] c = "x" -> 120 [] c = "y" -> 121

RECURSIVE TextLess(_, _)
TextLess(a, b) ==
    IF b = <<>> THEN FALSE
    ELSE IF a = <<>> THEN TRUE
    ELSE IF Head(a) = Head(b) THEN TextLess(Tail(a), Tail(b))
    ELSE Ord(Head(a)) < Ord(Head(b))

LabelLess(a, b) ==
    IF IsIntLabel(a) /\ IsIntLabel(b) THEN IntOf(a) < IntOf(b) ELSE TextLess(a, b)

\* (time, metric) of r1 strictly before that of r2
KeyLess(r1, r2) ==
    \/ NumLess(r1.time, r2.time)
    \/ r1.time = r2.time /\ LabelLess(r1.metric, r2.metric)

\* sort_values([time, "metric"]): record i goes after the records with a
\* smaller key and after the earlier records with an equal key.
sort_values(recs) ==
    [p \in 1..Len(recs) |->
        recs[CHOOSE i \in 1..Len(recs) :
                p = 1 + Cardinality({k \in 1..Len(recs) :
                                        \/ KeyLess(recs[k], recs[i])
                                        \/ ~KeyLess(recs[i], recs[k]) /\ k < i})]]
    \o <<>>

\* Concatenation of a sequence of sequences.
RECURSIVE Flatten(_)
Flatten(ss) == IF ss = <<>> THEN <<>> ELSE Head(ss) \o Flatten(Tail(ss))

\* dropna(subset=["value", time])
dropna(recs) == Sub(recs, {i \in 1..Len(recs) : IsNum(recs[i].value) /\ IsNum(recs[i].time)})

Times(recs) == {recs[i].time : i \in 1..Len(recs)}

\* long.empty alone
accept_any_times(recs) == recs = <<>>

\* lines 134, 195: long.empty or long[time].nunique() < 2
too_few_times(recs) == recs = <<>> \/ Cardinality(Times(recs)) < 2

\* None
None == [some |-> FALSE, columns |-> <<>>, rows |-> <<>>, year_col |-> <<>>,
         percent_metrics |-> {}, structure |-> ""]

S_metric == <<"m", "e", "t", "r", "i", "c">>
S_value == <<"v", "a", "l", "u", "e">>
S_year == <<"y", "e", "a", "r">>

\* lines 119-124: the positions of the value columns with at least 2 numbers,
\* not all equal
keep_cols(df, yj, df2) ==
    {j \in {j \in 1..NCols(df) : df.cols[j] # df.cols[yj]} :
        \E s_valid \in {{i \in 1..NRows(df) : IsNum(df2.rows[i][j])}} :
           /\ Cardinality(s_valid) >= 2
           /\ Varies({df2.rows[i][j] : i \in s_valid})}

\* lines 128-130: melt, one block of rows per kept column
melt_vertical(df, yj, df2, keepseq) ==
    Flatten([k \in 1..Len(keepseq) |->
               [i \in 1..NRows(df) |->
                  [time |-> df2.rows[i][yj], metric |-> df.cols[keepseq[k]],
                   value |-> df2.rows[i][keepseq[k]]]] \o <<>>] \o <<>>)

\* lines 134-143
vertical_result(df, yj, percent_cols, keep, long) ==
    IF too_few_times(long) THEN None
    ELSE [some |-> TRUE,
          columns |-> <<df.cols[yj], S_metric, S_value>>,
          rows |-> long,
          year_col |-> df.cols[yj],
          percent_metrics |-> {df.cols[j] : j \in keep \cap percent_cols},
          structure |-> "vertical"]

\* lines 128-132
vertical_sorted(df, yj, co, keep) ==
    CHOOSE r \in
       {vertical_result(df, yj, co.percent_cols, keep, long) :
          long \in
            {sort_values(kept) :
               kept \in
                 {dropna(m) :
                    m \in {melt_vertical(df, yj, co.out,
                                         Sub([j \in 1..NCols(df) |-> j], keep))}}}} : TRUE

\* lines 116-126
vertical_kept(df, yj, co) ==
    CHOOSE r \in
       {IF keep = {} THEN None ELSE vertical_sorted(df, yj, co, keep) :
          keep \in {keep_cols(df, yj, co.out)}} : TRUE

\* lines 109-116
vertical_with_year(df, yj) ==
    IF yj = 0 THEN None
    ELSE IF \A j \in 1..NCols(df) : df.cols[j] = df.cols[yj] THEN None
    ELSE CHOOSE r \in
            {vertical_kept(df, yj, co) :
               co \in {coerce_numeric_cols_with_percent_map(df, yj)}} : TRUE

\* lines 92-143
to_long_vertical(df) ==
    CHOOSE r \in {vertical_with_year(df, yj) : yj \in {find_year_col(df)}} : TRUE

\* line 158 (0 when line 153 finds no column that is not a year)
metric_col(df, ycols) ==
    IF \A j \in 1..NCols(df) : j \in ycols THEN 0
    ELSE Least({j \in 1..NCols(df) : j \notin ycols})

\* lines 156, 166, 181: the metric name of row i: row_<i> of the inserted
\* column, or str(...).strip() of the label cell
mname(df, mj, i) ==
    IF mj = 0 THEN <<"r", "o", "w", "_">> \o IntToStr(i - 1)
    ELSE Strip(df.rows[i][mj])

\* lines 162-175
percent_rows(df, ycols, mj) ==
    {mname(df, mj, i) : i \in {i \in 1..NRows(df) :
                                  \E j \in ycols : Contains(df.rows[i][j], <<"%">>)}}

\* lines 178-185: melt, one block of rows per year column
melt_horizontal(df, yseq, mj) ==
    Flatten([k \in 1..Len(yseq) |->
               [i \in 1..NRows(df) |->
                  [time |-> to_numeric(StrOf(df.cols[yseq[k]])),
                   metric |-> mname(df, mj, i),
                   value |-> to_number_and_is_percent(Text(df.rows[i][yseq[k]])).val]]
               \o <<>>] \o <<>>)

\* lines 189-193
ok_metrics_of(long) ==
    {m \in {long[i].metric : i \in 1..Len(long)} :
        \E vals \in {{i \in 1..Len(long) : long[i].metric = m}} :
           /\ Cardinality(vals) >= 2
           /\ Varies({long[i].value : i \in vals})}

\* lines 195-202
horizontal_result(percent_metrics, ok_metrics, kept) ==
    IF too_few_times(kept) THEN None
    ELSE [some |-> TRUE,
          columns |-> <<S_metric, S_year, S_value>>,
          rows |-> kept,
          year_col |-> S_year,
          percent_metrics |-> percent_metrics \cap ok_metrics,
          structure |-> "horizontal"]

\* lines 189-194
horizontal_kept(df, ycols, mj, long) ==
    CHOOSE r \in
       {horizontal_result(percent_rows(df, ycols, mj), ok_metrics,
                          Sub(long, {i \in 1..Len(long) : long[i].metric \in ok_metrics})) :
          ok_metrics \in {ok_metrics_of(long)}} : TRUE

\* lines 151-186
horizontal_with_years(df, ycols) ==
    IF Cardinality(ycols) < 2 THEN None
    ELSE CHOOSE r \in
            {horizontal_kept(df, ycols, metric_col(df, ycols), long) :
               long \in {dropna(m) :
                           m \in {melt_horizontal(df, Sub([j \in 1..NCols(df) |-> j], ycols),
                                                  metric_col(df, ycols))}}} : TRUE

\* lines 145-202
to_long_horizontal(df) ==
    CHOOSE r \in
       {horizontal_with_years(df, ycols) :
          ycols \in {{j \in 1..NCols(df) : is_year_like(df.cols[j])}}} : TRUE

\* ------------------------------------------------------------ selector
\* pd.DataFrame(columns=["year", "metric", "value"])
EmptyLong == [some |-> TRUE, columns |-> <<S_year, S_metric, S_value>>, rows |-> <<>>,
              year_col |-> <<>>, percent_metrics |-> {}, structure |-> ""]

\* pd.DataFrame()
EmptyFrame == [cols |-> <<>>, rows |-> <<>>]

\* The fallback taken from the last candidate instead of the first.
no_candidate_last(tbls) ==
    IF tbls # <<>>
    THEN [pno |-> tbls[Len(tbls)].pno, clean |-> clean_table(tbls[Len(tbls)].raw),
          long |-> EmptyLong]
    ELSE [pno |-> -1, clean |-> EmptyFrame, long |-> EmptyLong]

\* lines 213-216: what is returned when the loop returned nothing
no_candidate(tbls) ==
    IF tbls # <<>>
    THEN [pno |-> tbls[1].pno, clean |-> clean_table(tbls[1].raw), long |-> EmptyLong]
    ELSE [pno |-> -1, clean |-> EmptyFrame, long |-> EmptyLong]

\* The two attempts in the other order.
horizontal_then_vertical(dfc) ==
    CHOOSE r \in
       {IF lh # None THEN lh ELSE to_long_vertical(dfc) :
          lh \in {to_long_horizontal(dfc)}} : TRUE

\* lines 207-212 for one candidate: the vertical result, else the horizontal
\* one, else None
vertical_then_horizontal(dfc) ==
    CHOOSE r \in
       {IF lv # None THEN lv ELSE to_long_horizontal(dfc) :
          lv \in {to_long_vertical(dfc)}} : TRUE

\* lines 205-212 from candidate i on
RECURSIVE pick_from(_, _)
pick_from(tbls, i) ==
    IF i > Len(tbls) THEN no_candidate(tbls)
    ELSE CHOOSE r \in
            {CHOOSE q \in
                {IF long # None THEN [pno |-> tbls[i].pno, clean |-> dfc, long |-> long]
                 ELSE pick_from(tbls, i + 1) :
                   long \in {vertical_then_horizontal(dfc)}} : TRUE :
               dfc \in {clean_table(tbls[i].raw)}} : TRUE

\* lines 204-216
pick_first_visualizable_long(tbls) == pick_from(tbls, 1)

\* lines 268-273: the index of the first table on page default_pno
compute_default_idx(tbls, default_pno) ==
    IF default_pno # -1 /\ \E i \in 1..Len(tbls) : tbls[i].pno = default_pno
    THEN Least({i \in 1..Len(tbls) : tbls[i].pno = default_pno}) - 1
    ELSE 0

\* ------------------------------------------------------------ SpecNum
\* The characters the normaliser is tried on.
CellAlphabet == {"-", " ", "1", "5", ",", ".", "%", "a"}

\* The sequences over A of length at most k.
StringsUpTo(A, k) == UNION {[1..n -> A] : n \in 0..k}

NoNum == [val |-> NA, is_pct |-> FALSE]
NoFrame == [cols |-> <<>>, rows |-> <<>>]
NoPick == [pno |-> 0, clean |-> NoFrame, long |-> None]

InitNum ==
    /\ pc = "cell"
    /\ x \in {Missing} \cup {Text(s) : s \in StringsUpTo(CellAlphabet, MaxLen)}
    /\ num = NoNum
    /\ df_raw = NoFrame /\ df_clean = NoFrame /\ df_twice = NoFrame
    /\ long_v = None /\ long_h = None /\ df_long = None
    /\ tables = <<>> /\ default = NoPick /\ default_idx = 0 /\ idx = 0

\* One call of to_number_and_is_percent(x).
Normalize ==
    /\ pc = "cell"
    /\ num' = to_number_and_is_percent(x)
    /\ pc' = "normalized"
    /\ UNCHANGED <<x, df_raw, df_clean, df_twice, long_v, long_h,
                   tables, default, default_idx, idx, df_long>>

NextNum == Normalize

SpecNum == InitNum /\ [][NextNum]_vars

\* ------------------------------------------------------------ the page script
\* Texts of the cells and labels the tables are built from.
c_ == <<>>
c_sp == <<" ">>
c_1 == <<"1">>
c_2 == <<"2">>
c_5 == <<"5">>
c_a == <<"a">>
c_b == <<"b">>
c_m == <<"m">>
c_t == <<"t">>
c_x == <<"x">>
c_y == <<"y">>
c_2020 == <<"2", "0", "2", "0">>
c_2021 == <<"2", "0", "2", "1">>
c_year == <<"y", "e", "a", "r">>
c_Year == <<"Y", "e", "a", "r">>
c_col_1 == <<"c", "o", "l", "_", "1">>

\* A grid of texts as pdfplumber returns it, as a DataFrame of cells.
Frame(grid) ==
    DataFrame([i \in 1..Len(grid) |-> [j \in 1..Len(grid[i]) |-> Text(grid[i][j])]])

\* Extracted tables the selector is tried on: one no transform accepts, one
\* only the vertical transform accepts, one only the horizontal, one both, and
\* one whose only metric is constant.
SampleFrames ==
    {Frame(<<<<c_x, c_y>>, <<c_a, c_b>>>>),
     Frame(<<<<c_year, c_a>>, <<c_2020, c_1>>, <<c_2021, c_2>>>>),
     Frame(<<<<c_m, c_2020, c_2021>>, <<c_a, c_1, c_2>>>>),
     Frame(<<<<c_Year, c_2020, c_2021>>, <<c_2020, c_1, c_2>>, <<c_2021, c_2, c_1>>>>),
     Frame(<<<<c_year, c_a>>, <<c_2020, c_5>>, <<c_2021, c_5>>>>)}

\* Most tables extracted, and the highest page number.
MaxTables == 2
MaxPage == 2

\* extract_tables_from_pdf (lines 222-243) appends page by page: page
\* numbers never decrease along the list.
Candidates ==
    {ts \in StringsUpTo([pno : 1..MaxPage, raw : SampleFrames], MaxTables) :
        \A i \in 1..(Len(ts) - 1) : ts[i].pno <= ts[i + 1].pno}

Init ==
    /\ pc = "start"
    /\ tables \in Candidates
    /\ x = Missing /\ num = NoNum
    /\ df_raw = NoFrame /\ df_clean = NoFrame /\ df_twice = NoFrame
    /\ long_v = None /\ long_h = None /\ df_long = None
    /\ default = NoPick /\ default_idx = 0 /\ idx = 0

\* lines 261-263: no table, st.stop()
StopNoTables ==
    /\ pc = "start"
    /\ tables = <<>>
    /\ pc' = "stopped"
    /\ UNCHANGED <<x, num, df_raw, df_clean, df_twice, long_v, long_h,
                   tables, default, default_idx, idx, df_long>>

\* line 267, reached with at least one table
PickFirst ==
    /\ pc = "start"
    /\ tables # <<>>
    /\ default' = pick_first_visualizable_long(tables)
    /\ pc' = "picked"
    /\ UNCHANGED <<x, num, df_raw, df_clean, df_twice, long_v, long_h,
                   tables, default_idx, idx, df_long>>

\* lines 268-273
ComputeDefaultIdx ==
    /\ pc = "picked"
    /\ default_idx' = compute_default_idx(tables, default.pno)
    /\ pc' = "indexed"
    /\ UNCHANGED <<x, num, df_raw, df_clean, df_twice, long_v, long_h,
                   tables, default, idx, df_long>>

\* lines 275-282: the select box offers every table; line 282 reads the one
\* chosen
SelectTable ==
    /\ pc = "indexed"
    /\ \E i \in 0..(Len(tables) - 1) :
          /\ idx' = i
          /\ df_raw' = tables[i + 1].raw
    /\ pc' = "selected"
    /\ UNCHANGED <<x, num, df_clean, df_twice, long_v, long_h,
                   tables, default, default_idx, df_long>>

\* line 283
CleanSelected ==
    /\ pc = "selected"
    /\ df_clean' = clean_table(df_raw)
    /\ pc' = "cleaned"
    /\ UNCHANGED <<x, num, df_raw, df_twice, long_v, long_h,
                   tables, default, default_idx, idx, df_long>>

\* line 286
LongVertical ==
    /\ pc = "cleaned"
    /\ long_v' = to_long_vertical(df_clean)
    /\ pc' = "vertical"
    /\ UNCHANGED <<x, num, df_raw, df_clean, df_twice, long_h,
                   tables, default, default_idx, idx, df_long>>

\* lines 287-288
LongHorizontal ==
    /\ pc = "vertical"
    /\ long_h' = to_long_horizontal(df_clean)
    /\ df_long' = IF long_v # None THEN long_v ELSE long_h'
    /\ pc' = "shown"
    /\ UNCHANGED <<x, num, df_raw, df_clean, df_twice, long_v,
                   tables, default, default_idx, idx>>

Next ==
    \/ StopNoTables
    \/ PickFirst
    \/ ComputeDefaultIdx
    \/ SelectTable
    \/ CleanSelected
    \/ LongVertical
    \/ LongHorizontal

Spec == Init /\ [][Next]_vars

\* ------------------------------------------------------------ SpecPick
\* One call of pick_first_visualizable_long(tables) on any list, the empty
\* one included.
Pick ==
    /\ pc = "start"
    /\ default' = pick_first_visualizable_long(tables)
    /\ pc' = "picked"
    /\ UNCHANGED <<x, num, df_raw, df_clean, df_twice, long_v, long_h,
                   tables, default_idx, idx, df_long>>

NextPick == Pick

SpecPick == Init /\ [][NextPick]_vars

\* ------------------------------------------------------------ SpecLong
\* Most data rows of a table given to the long-form transforms.
MaxRows == 3

\* The grids with the given header row and 1..k rows drawn from Rows.
Grids(header, Rows, k) ==
    {<<header>> \o rows : rows \in StringsUpTo(Rows, k) \ {<<>>}}

c_02020 == <<"0", "2", "0", "2", "0">>

\* Tables with a named year column and one metric; with years as headers, in
\* descending order, and a label column; with a year column only its values
\* give away; with both a named year column and years as headers; without a
\* header row; and with two headers that write the same year.
LongGrids ==
    Grids(<<c_year, c_a>>,
          {<<y, a>> : y \in {c_2020, c_2021, c_}, a \in {c_1, c_2, c_}}, MaxRows)
    \cup Grids(<<c_m, c_2021, c_2020>>,
               {<<m, a, b>> : m \in {c_a, c_}, a \in {c_1, c_2}, b \in {c_1, c_}}, MaxRows)
    \cup Grids(<<c_t, c_a, c_b>>,
               {<<y, a, b>> : y \in {c_2020, c_2021, c_5}, a \in {c_1, c_2}, b \in {c_x}},
               MaxRows)
    \cup Grids(<<c_Year, c_2020, c_2021>>,
               {<<y, a, b>> : y \in {c_2020, c_2021}, a \in {c_1, c_2}, b \in {c_1, c_2}},
               MaxRows)
    \cup Grids(<<c_, c_, c_x>>,
               {<<y, a, b>> : y \in {c_2020, c_2021}, a \in {c_1, c_2}, b \in {c_x}},
               MaxRows)
    \cup Grids(<<c_m, c_2020, c_02020>>,
               {<<m, a, b>> : m \in {c_a}, a \in {c_1, c_2}, b \in {c_1, c_2}}, MaxRows)

InitLong ==
    /\ pc = "selected"
    /\ df_raw \in {Frame(g) : g \in LongGrids}
    /\ x = Missing /\ num = NoNum
    /\ df_clean = NoFrame /\ df_twice = NoFrame
    /\ long_v = None /\ long_h = None /\ df_long = None
    /\ tables = <<>> /\ default = NoPick /\ default_idx = 0 /\ idx = 0

NextLong ==
    \/ CleanSelected
    \/ LongVertical
    \/ LongHorizontal

SpecLong == InitLong /\ [][NextLong]_vars

\* ------------------------------------------------------------ SpecYear
\* Most data rows of a table whose year column only its values give away.
MaxYearRows == 10

\* The kinds of row of these tables: a year, another year or a text in the
\* first column; a year or a small number in the second.
YearRowKinds ==
    <<<<c_2020, c_1>>, <<c_2020, c_2020>>, <<c_2021, c_1>>, <<c_2021, c_2020>>,
      <<c_x, c_1>>, <<c_x, c_2020>>>>

\* m copies of the row r.
Rep(r, m) == [i \in 1..m |-> r]

\* The lists of n rows of the kinds k.. in the order of the kinds: the number
\* of rows of each kind is what lines 102-104 look at, not their order.
RECURSIVE Runs(_, _)
Runs(k, n) ==
    IF k > Len(YearRowKinds) THEN (IF n = 0 THEN {<<>>} ELSE {})
    ELSE UNION {{Rep(YearRowKinds[k], m) \o r : r \in Runs(k + 1, n - m)} : m \in 0..n}

\* Tables under a header row without a time keyword.
YearGrids ==
    UNION {{<<<<c_t, c_b>>>> \o rows : rows \in Runs(1, n)} : n \in 1..MaxYearRows}

InitYear ==
    /\ pc = "selected"
    /\ df_raw \in {Frame(g) : g \in YearGrids}
    /\ x = Missing /\ num = NoNum
    /\ df_clean = NoFrame /\ df_twice = NoFrame
    /\ long_v = None /\ long_h = None /\ df_long = None
    /\ tables = <<>> /\ default = NoPick /\ default_idx = 0 /\ idx = 0

SpecYear == InitYear /\ [][NextLong]_vars

\* ------------------------------------------------------------ SpecPct
c_1p == <<"1", "%">>
c_5p == <<"5", "%">>

\* Tables whose value cells are written with and without "%": a year column
\* and one metric column, and a label column under two year headers.
PctGrids ==
    Grids(<<c_year, c_a>>,
          {<<y, a>> : y \in {c_2020, c_2021}, a \in {c_1p, c_5p, c_1, c_5}}, MaxRows)
    \cup Grids(<<c_m, c_2020, c_2021>>,
               {<<m, a, b>> : m \in {c_a}, a \in {c_1p, c_5p, c_5}, b \in {c_1p, c_5p, c_5}},
               MaxRows)

InitPct ==
    /\ pc = "selected"
    /\ df_raw \in {Frame(g) : g \in PctGrids}
    /\ x = Missing /\ num = NoNum
    /\ df_clean = NoFrame /\ df_twice = NoFrame
    /\ long_v = None /\ long_h = None /\ df_long = None
    /\ tables = <<>> /\ default = NoPick /\ default_idx = 0 /\ idx = 0

SpecPct == InitPct /\ [][NextLong]_vars

\* ------------------------------------------------------------ SpecClean
\* Most rows of a raw grid given to the cleaner, its first row included.
MaxRawRows == 3

\* Grids of two columns and 2..MaxRawRows rows over a missing cell, a blank
\* one and two texts.
CleanGrids ==
    {g \in StringsUpTo({<<a, b>> : a \in {Missing, Text(c_sp), Text(c_a), Text(c_col_1)},
                                   b \in {Missing, Text(c_sp), Text(c_a), Text(c_col_1)}},
                       MaxRawRows) : Len(g) >= 2}

InitClean ==
    /\ pc = "selected"
    /\ df_raw \in {DataFrame(g) : g \in CleanGrids}
    /\ x = Missing /\ num = NoNum
    /\ df_clean = NoFrame /\ df_twice = NoFrame
    /\ long_v = None /\ long_h = None /\ df_long = None
    /\ tables = <<>> /\ default = NoPick /\ default_idx = 0 /\ idx = 0

\* clean_table applied to its own result
CleanAgain ==
    /\ pc = "cleaned"
    /\ NRows(df_clean) >= 1
    /\ df_twice' = clean_table(AsInput(df_clean))
    /\ pc' = "twice"
    /\ UNCHANGED <<x, num, df_raw, df_clean, long_v, long_h,
                   tables, default, default_idx, idx, df_long>>

NextClean ==
    \/ CleanSelected
    \/ CleanAgain

SpecClean == InitClean /\ [][NextClean]_vars

\* ------------------------------------------------------------ C1, C2, C3
\* The long-form results of candidate i, and the candidates some transform
\* accepts.
VerticalOf(i) == to_long_vertical(clean_table(tables[i].raw))
HorizontalOf(i) == to_long_horizontal(clean_table(tables[i].raw))
Yields(i) ==
    \E dfc \in {clean_table(tables[i].raw)} :
       to_long_vertical(dfc) # None \/ to_long_horizontal(dfc) # None
Yielding == {i \in 1..Len(tables) : Yields(i)}
Picked == pc \notin {"start", "stopped"}

\* C1: the selector returns the cleaned table and the long table of the
\* earliest candidate a transform accepts, the vertical result when there is
\* one and the horizontal result only when there is none; the long table
\* shown for the selected table (line 288) follows the same order.
C1_FirstCandidateVerticalFirst ==
    /\ Picked =>
          \E ys \in {Yielding} :
             ys # {} =>
                \E f \in {Least(ys)} : \E lv \in {VerticalOf(f)} :
                   /\ default.pno = tables[f].pno
                   /\ default.clean = clean_table(tables[f].raw)
                   /\ default.long = (IF lv # None THEN lv ELSE HorizontalOf(f))
                   /\ default.long.structure \in {"vertical", "horizontal"}
                   /\ default.long.structure = "horizontal" => lv = None
    /\ pc = "shown" =>
          /\ long_v # None => df_long = long_v
          /\ long_v = None => df_long = long_h

\* A list whose first table no transform accepts and whose second both
\* accept: the second is returned, with its vertical result.
C1_Witness ==
    /\ pc = "picked"
    /\ Len(tables) = 2
    /\ ~Yields(1)
    /\ VerticalOf(2) # None /\ HorizontalOf(2) # None
    /\ default.long = VerticalOf(2)
    /\ default.long.structure = "vertical"

\* C2: the index the script selects from the selector's page number is the
\* position of the first candidate a transform accepts.
C2_DefaultIdxIsFirstYielding ==
    pc \in {"indexed", "selected", "cleaned", "vertical", "shown"} =>
        \E ys \in {Yielding} : ys # {} => default_idx = Least(ys) - 1

\* C3: when no transform accepts any candidate the selector returns the first
\* candidate's page number and cleaned table with an empty long table of
\* columns (year, metric, value), and page -1 with an empty frame for an empty
\* list.
C3_Fallback ==
    (Picked /\ Yielding = {}) =>
        /\ default.long.some
        /\ default.long.rows = <<>>
        /\ default.long.columns = <<S_year, S_metric, S_value>>
        /\ tables = <<>> => (default.pno = -1 /\ default.clean = EmptyFrame)
        /\ tables # <<>> =>
              /\ default.pno = tables[1].pno
              /\ default.clean = clean_table(tables[1].raw)

C3_Witness ==
    /\ pc = "picked"
    /\ Len(tables) = 2
    /\ ~Yields(1) /\ ~Yields(2)
    /\ tables[1].pno # tables[2].pno
    /\ tables[1].raw # tables[2].raw
    /\ default.pno = tables[1].pno
    /\ default.long = EmptyLong

\* ------------------------------------------------------------ C4, C5, C10
Metrics(recs) == {recs[i].metric : i \in 1..Len(recs)}
Of(recs, m) == {i \in 1..Len(recs) : recs[i].metric = m}

\* The LongTable invariant of the data model.
LongTableOK(recs) ==
    /\ \A i \in 1..Len(recs) : IsNum(recs[i].value) /\ IsNum(recs[i].time)
    /\ \A m \in Metrics(recs) :
          /\ Cardinality({recs[i].time : i \in Of(recs, m)}) >= 2
          /\ Varies({recs[i].value : i \in Of(recs, m)})
    /\ Cardinality(Times(recs)) >= 2

\* C4: every long table either transform returns has no missing value or
\* time, gives every metric at least 2 distinct times and values that are not
\* all equal, and has at least 2 distinct times.
C4_LongTableInvariant ==
    /\ (pc \in {"vertical", "shown"} /\ long_v # None) => LongTableOK(long_v.rows)
    /\ (pc = "shown" /\ long_h # None) => LongTableOK(long_h.rows)

\* Sorted by (time, metric).
SortedByTimeMetric(recs) ==
    \A i \in 1..(Len(recs) - 1) :
       \/ NumLess(recs[i].time, recs[i + 1].time)
       \/ /\ recs[i].time = recs[i + 1].time
          /\ ~LabelLess(recs[i + 1].metric, recs[i].metric)

\* C5: every long table either transform returns is sorted by (time, metric).
C5_Sorted ==
    /\ (pc \in {"vertical", "shown"} /\ long_v # None) => SortedByTimeMetric(long_v.rows)
    /\ (pc = "shown" /\ long_h # None) => SortedByTimeMetric(long_h.rows)

\* The records of the cleaned table that pass the missing-value and metric
\* filters, for either orientation.
SurvivorsVertical(df) ==
    LET yj == find_year_col(df)
        co == coerce_numeric_cols_with_percent_map(df, yj)
        keep == keep_cols(df, yj, co.out)
    IN  IF yj = 0 THEN <<>>
        ELSE dropna(melt_vertical(df, yj, co.out, Sub([j \in 1..NCols(df) |-> j], keep)))

SurvivorsHorizontal(df) ==
    LET ycols == {j \in 1..NCols(df) : is_year_like(df.cols[j])}
        long == dropna(melt_horizontal(df, Sub([j \in 1..NCols(df) |-> j], ycols),
                                       metric_col(df, ycols)))
        ok == ok_metrics_of(long)
    IN  Sub(long, {i \in 1..Len(long) : long[i].metric \in ok})

\* C10: a cleaned table whose surviving records carry at most one time value
\* is given no result by either transform, and so is one whose year cells, or
\* whose year headers, write at most one number.
C10_SingleTimeRejected ==
    /\ pc \in {"vertical", "shown"} =>
          /\ Cardinality(Times(SurvivorsVertical(df_clean))) <= 1 => long_v = None
          /\ long_v # None =>
                Cardinality({v \in {to_numeric(df_clean.rows[i][find_year_col(df_clean)]) :
                                       i \in 1..NRows(df_clean)} : IsNum(v)}) >= 2
    /\ pc = "shown" =>
          /\ Cardinality(Times(SurvivorsHorizontal(df_clean))) <= 1 => long_h = None
          /\ long_h # None =>
                Cardinality({to_numeric(StrOf(df_clean.cols[j])) :
                                j \in {j \in 1..NCols(df_clean) :
                                          is_year_like(df_clean.cols[j])}}) >= 2

\* Two metric columns pass the filter and every surviving record is of 2020.
C10_Witness ==
    /\ pc = "shown"
    /\ find_year_col(df_clean) # 0
    /\ Cardinality(Metrics(SurvivorsVertical(df_clean))) = 2
    /\ Times(SurvivorsVertical(df_clean)) = {Dec(2020, 0)}
    /\ long_v = None

\* ------------------------------------------------------------ C8, C9
\* C8: clean_table applied to its own result changes neither the column
\* names nor the rows.
C8_Idempotent ==
    pc = "twice" => df_twice = df_clean

\* s is t with some elements left out.
RECURSIVE IsSubsequence(_, _)
IsSubsequence(s, u) ==
    IF s = <<>> THEN TRUE
    ELSE IF u = <<>> THEN FALSE
    ELSE IF Head(s) = Head(u) THEN IsSubsequence(Tail(s), Tail(u))
    ELSE IsSubsequence(s, Tail(u))

\* C9: a cleaned table has no blank column name, no two equal column names
\* and no row of empty strings only, and its rows are rows of the stripped
\* raw table in their order.
C9_CleanTableInvariant ==
    pc \in {"cleaned", "twice"} =>
        /\ \A j \in 1..NCols(df_clean) : Strip(StrOf(df_clean.cols[j])) # <<>>
        /\ \A j \in 1..NCols(df_clean) : \A k \in 1..NCols(df_clean) :
              j # k => df_clean.cols[j] # df_clean.cols[k]
        /\ \A i \in 1..NRows(df_clean) :
              \E j \in 1..NCols(df_clean) : df_clean.rows[i][j] # <<>>
        /\ IsSubsequence(df_clean.rows, applymap_strip(df_raw).rows)

\* ------------------------------------------------------------ C6, C7
\* The numeric pattern as the specification words it: an optional leading
\* "-", optional whitespace, digits with optional commas, an optional decimal
\* fraction, optional whitespace, an optional trailing "%", end to end.
AllIn(s, lo, hi, C) == \A k \in lo..hi : s[k] \in C

InPattern(s) ==
    \E a \in {0, 1} \cap 0..Len(s) :
       /\ a = 1 => s[1] = "-"
       /\ \E b \in a..Len(s) :
             /\ AllIn(s, a + 1, b, {" ", "\t", "\n"})
             /\ \E c \in (b + 1)..Len(s) :
                   /\ AllIn(s, b + 1, c, Digits \cup {","})
                   /\ \E d \in c..Len(s) :
                         /\ d > c => (/\ d >= c + 2
                                      /\ s[c + 1] = "."
                                      /\ AllIn(s, c + 2, d, Digits))
                         /\ \E e \in d..Len(s) :
                               /\ AllIn(s, d + 1, e, {" ", "\t", "\n"})
                               /\ \/ e = Len(s)
                                  \/ e + 1 = Len(s) /\ s[e + 1] = "%"

\* The digits of s in order, and how many of them follow the first point.
RECURSIVE OnlyDigits(_)
OnlyDigits(s) ==
    IF s = <<>> THEN <<>>
    ELSE (IF Head(s) \in Digits THEN <<Head(s)>> ELSE <<>>) \o OnlyDigits(Tail(s))

AfterPoint(s) ==
    IF \E k \in 1..Len(s) : s[k] = "."
    THEN LET k == CHOOSE k \in 1..Len(s) : s[k] = "." /\ \A j \in 1..(k - 1) : s[j] # "."
         IN  SubSeq(s, k + 1, Len(s))
    ELSE <<>>

\* The number the text writes once "%" and "," are taken out.
Written(s) ==
    LET m == DigitsVal(OnlyDigits(s))
    IN  Dec(IF s # <<>> /\ s[1] = "-" THEN -m ELSE m, Len(OnlyDigits(AfterPoint(s))))

\* C6: every string whose trimmed form matches the numeric pattern is given a
\* number; is_percent says whether it ends in "%"; and the number, times 100
\* when is_percent, is the number the text writes.
C6_RoundTrip ==
    (pc = "normalized" /\ ~x.isna /\ InPattern(Strip(x.str))) =>
        /\ IsNum(num.val)
        /\ num.is_pct = EndsWith(Strip(x.str), "%")
        /\ (IF num.is_pct THEN Mul100(num.val) ELSE num.val) = Written(Strip(x.str))

\* C6 on the strings float() accepts: a matching string with no whitespace
\* after the sign and at least one digit round-trips.
C6_RoundTripParsable ==
    (/\ pc = "normalized" /\ ~x.isna /\ InPattern(Strip(x.str))
     /\ OnlyDigits(Strip(x.str)) # <<>>
     /\ ~(Len(Strip(x.str)) >= 2 /\ Strip(x.str)[1] = "-" /\ IsSpace(Strip(x.str)[2]))) =>
        /\ IsNum(num.val)
        /\ num.is_pct = EndsWith(Strip(x.str), "%")
        /\ (IF num.is_pct THEN Mul100(num.val) ELSE num.val) = Written(Strip(x.str))

\* C7: a missing input, and every string whose trimmed form does not match
\* the numeric pattern end to end, gives "not a number" with is_percent false.
C7_NotANumber ==
    (pc = "normalized" /\ (x.isna \/ ~InPattern(Strip(x.str)))) => num = NoNum

C7_Witness ==
    /\ pc = "normalized"
    /\ x = Text(<<"1", ".", "5", ".">>)
    /\ num = NoNum

\* ------------------------------------------------------------ C11
\* The cells of column j that parse as numbers, and the value-based rule as
\* the specification words it: at least max(3, row_count / 3) of them, more
\* than 60% of them in [1900, 2100].
Parsed(df, j) == {i \in 1..NRows(df) : IsNum(to_numeric(df.rows[i][j]))}

QualifiesByValues(df, j) ==
    \E ok \in {Parsed(df, j)} :
       /\ Cardinality(ok) >= 3
       /\ 3 * Cardinality(ok) >= NRows(df)
       /\ 10 * Cardinality({i \in ok : InRange(to_numeric(df.rows[i][j]), 1900, 2100)})
             > 6 * Cardinality(ok)

\* C11: when no column name has a time keyword, the year column is the first
\* column with at least max(3, row_count / 3) parsed values of which more
\* than 60% are in [1900, 2100]; a column with fewer parsed values than
\* row_count / 3 is never the year column of a result; and without such a
\* column the vertical transform returns None.
C11_YearColumnByValues ==
    (/\ pc \in {"vertical", "shown"}
     /\ \A j \in 1..NCols(df_clean) : ~name_hit(df_clean.cols[j])) =>
        \E q \in {{j \in 1..NCols(df_clean) : QualifiesByValues(df_clean, j)}} :
           /\ q = {} => long_v = None
           /\ q # {} => find_year_col(df_clean) = Least(q)
           /\ long_v # None => q # {} /\ long_v.year_col = df_clean.cols[Least(q)]

\* ------------------------------------------------------------ C12
\* The cell is written with a trailing "%" and r.value times 100 (lines
\* 319-322) is the number it writes.
FromPercentCell(cell, r) ==
    /\ EndsWith(Strip(cell), "%")
    /\ Written(Strip(cell)) = Mul100(r.value)

\* Record r of the vertical result comes from a "%" cell of its metric's
\* column in a row of its time; record r of the horizontal result from a "%"
\* cell of a row with its metric's label under the header of its time.
VerticalSource(df, r) ==
    \E yj \in {find_year_col(df)} :
       \E i \in 1..NRows(df) : \E j \in 1..NCols(df) :
          /\ df.cols[j] = r.metric
          /\ to_numeric(df.rows[i][yj]) = r.time
          /\ FromPercentCell(df.rows[i][j], r)

HorizontalSource(df, r) ==
    \E ycols \in {{j \in 1..NCols(df) : is_year_like(df.cols[j])}} :
       \E i \in 1..NRows(df) : \E j \in ycols :
          /\ mname(df, metric_col(df, ycols), i) = r.metric
          /\ to_numeric(StrOf(df.cols[j])) = r.time
          /\ FromPercentCell(df.rows[i][j], r)

\* C12: every record of a percent metric of a returned long table holds a
\* value on the 0-1 scale: it comes from a source cell written with a
\* trailing "%", and times 100 it is the number that cell writes.
C12_PercentScale ==
    /\ (pc \in {"vertical", "shown"} /\ long_v # None) =>
          \A i \in 1..Len(long_v.rows) :
             long_v.rows[i].metric \in long_v.percent_metrics =>
                VerticalSource(df_clean, long_v.rows[i])
    /\ (pc = "shown" /\ long_h # None) =>
          \A i \in 1..Len(long_h.rows) :
             long_h.rows[i].metric \in long_h.percent_metrics =>
                HorizontalSource(df_clean, long_h.rows[i])

====
